---- MODULE Spec2Model ----
(***************************************************************************)
(* The Walktour component of src/index.tsx as a state machine.             *)
(*                                                                         *)
(* The component keeps four pieces of React state (isVisibleState,         *)
(* tooltipPosition, targetData, currentStepIndex).  Every state change     *)
(* re-renders synchronously and commits the output to the DOM; the         *)
(* placement effect of a render (useEffect, dependency currentStepIndex)   *)
(* runs after that commit, and before any later render.                    *)
(*                                                                         *)
(* Lengths are in half pixels: a ClientRect and a scroll offset are        *)
(* fractional in the browser, option values (maskPadding, ...) are given   *)
(* in pixels and converted with Px.                                        *)
(***************************************************************************)
EXTENDS Integers, Sequences, FiniteSets, TLC

VARIABLES
    props,            \* WalktourProps (37-41): steps, isVisible, options
    isVisibleState,   \* useState(isVisible) (63)
    tooltipPosition,  \* useState<Coords>(undefined) (64)
    targetData,       \* useState<ClientRect>(undefined) (65)
    currentStepIndex, \* useState(initialStepIndex || 0) (66)
    dom,              \* what the last commit left in the document (175-225); Null: nothing
    pendingEffect,    \* the placement effect the last render scheduled (94-113), with its closure
    error,            \* the error that unmounted the component, "none" without one
    page,             \* the host document: elements by selector, scroll offset, viewport
    last,             \* history: what the last run of the placement effect did
    lastOp,           \* history: the operation that produced this state
    lastCall          \* history: the goToStep call that operation made, if any

vars == <<props, isVisibleState, tooltipPosition, targetData, currentStepIndex,
          dom, pendingEffect, error, page, last, lastOp, lastCall>>

-----------------------------------------------------------------------------
(* JavaScript values *)

Undefined == [undefined |-> TRUE]
Null == [null |-> TRUE]

\* An option of an options object: the key is absent, or present with the
\* value undefined, or present with a value.
Absent == [kind |-> "absent"]
Undef == [kind |-> "undefined"]
Val(v) == [kind |-> "value", v |-> v]

\* Reading a key: an absent key reads as undefined.
Read(o) == IF o = Absent THEN Undef ELSE o

\* A JavaScript number: an integer (of half pixels) or NaN.
Num(n) == [nan |-> FALSE, v |-> n]
NaN == [nan |-> TRUE, v |-> 0]
Plus(a, b) == IF a.nan \/ b.nan THEN NaN ELSE Num(a.v + b.v)
Minus(a, b) == IF a.nan \/ b.nan THEN NaN ELSE Num(a.v - b.v)
\* a <= 0 in JavaScript: false when a is NaN
LeqZero(a) == ~a.nan /\ a.v <= 0
\* ToNumber of an option value in pixels: undefined converts to NaN
ToNumber(o) == IF o.kind = "value" THEN Num(2 * o.v) ELSE NaN

Px(n) == 2 * n

\* Math.round of a length in half pixels, in pixels: halves round up.
Round(h) == (h + 1) \div 2

-----------------------------------------------------------------------------
(* Bounds and inputs *)

MaxSteps == 2

Rect(top, left, width, height) ==
    [top |-> top, left |-> left, width |-> width, height |-> height]

NoElement == Null

\* The states of the host page the tour runs on: which selectors match an
\* element and where it is, the scroll offset and the viewport size.
PageStates ==
    { \* both targets there, page not scrolled
      [elements |-> [a |-> Rect(Px(100), Px(100), Px(50), Px(50)),
                     b |-> Rect(Px(700) + 1, Px(300) + 1, Px(40), Px(30))],
       scrollX |-> 0, scrollY |-> 0, innerWidth |-> Px(1024), innerHeight |-> Px(768)],
      \* the same page scrolled by 30.5 pixels
      [elements |-> [a |-> Rect(Px(70) - 1, Px(100), Px(50), Px(50)),
                     b |-> Rect(Px(670), Px(300) + 1, Px(40), Px(30))],
       scrollX |-> 0, scrollY |-> Px(30) + 1, innerWidth |-> Px(1024), innerHeight |-> Px(768)],
      \* the element of "b" removed
      [elements |-> [a |-> Rect(Px(100), Px(100), Px(50), Px(50)),
                     b |-> NoElement],
       scrollX |-> 0, scrollY |-> 0, innerWidth |-> Px(1024), innerHeight |-> Px(768)],
      \* the window made small
      [elements |-> [a |-> Rect(Px(100), Px(100), Px(50), Px(50)),
                     b |-> Rect(Px(150), Px(20), Px(40), Px(30))],
       scrollX |-> 0, scrollY |-> 0, innerWidth |-> Px(320), innerHeight |-> Px(400)] }

Options(pad, sep, prefs) ==
    [maskPadding |-> pad, tooltipSeparation |-> sep, orientationPreferences |-> prefs]

Step(selector, title, opts) ==
    [querySelector |-> selector, title |-> title, options |-> opts]

\* The steps a tour is made of.
StepCatalog ==
    { Step("a", "short", Options(Absent, Absent, Absent)),
      Step("b", "short", Options(Val(2), Val(4), Val(<<"south", "north">>))),
      Step("b", "long", Options(Val(0), Absent, Val(<<"west", "east">>))),
      Step("a", "short", Options(Undef, Absent, Val(<<"south">>))) }

\* The component-level options.
PropsCatalog ==
    { Options(Absent, Absent, Absent),
      Options(Val(3), Val(6), Val(<<"north", "south">>)) }

StepLists == UNION { [1..n -> StepCatalog] : n \in 0..MaxSteps }

\* initialStepIndex: not given, or a number (in range or not)
InitialStepIndexes == {Absent} \cup { Val(i) : i \in -1..MaxSteps }

-----------------------------------------------------------------------------
(* The positioning helpers the component imports *)

\* The measured size of the tooltip element, which follows from its content.
TooltipSize(title) ==
    IF title = "long" THEN [width |-> Px(1100), height |-> Px(80)]
                      ELSE [width |-> Px(200), height |-> Px(80)]

\* getElementCoords(rect, round): the page-absolute top-left corner of a
\* viewport-relative rectangle, rounded to whole pixels on request.
getElementCoords(rect, round, pg) ==
    LET x == rect.left + pg.scrollX
        y == rect.top + pg.scrollY
    IN IF round THEN [x |-> Px(Round(x)), y |-> Px(Round(y))]
                ELSE [x |-> x, y |-> y]

\* The orientations tried when the caller gives no preference.
DefaultOrientations == <<"east", "south", "west", "north">>

\* The tooltip's top-left corner when placed at orientation o of the target.
OrientationCoords(o, target, tooltip, padding, tooltipSeparation, pg) ==
    LET t == getElementCoords(target, FALSE, pg)
        gap == Plus(ToNumber(padding), ToNumber(tooltipSeparation))
    IN CASE o = "south" -> [x |-> Num(t.x), y |-> Plus(Num(t.y + target.height), gap)]
         [] o = "north" -> [x |-> Num(t.x), y |-> Minus(Num(t.y - tooltip.height), gap)]
         [] o = "east" -> [x |-> Plus(Num(t.x + target.width), gap), y |-> Num(t.y)]
         [] o = "west" -> [x |-> Minus(Num(t.x - tooltip.width), gap), y |-> Num(t.y)]

\* By how much a tooltip at c leaves the viewport on each side.
Overflow(c, tooltip, pg) ==
    [left |-> Minus(Num(pg.scrollX), c.x),
     top |-> Minus(Num(pg.scrollY), c.y),
     right |-> Minus(Plus(c.x, Num(tooltip.width)), Num(pg.scrollX + pg.innerWidth)),
     bottom |-> Minus(Plus(c.y, Num(tooltip.height)), Num(pg.scrollY + pg.innerHeight))]

Fits(c, tooltip, pg) ==
    LET o == Overflow(c, tooltip, pg)
    IN LeqZero(o.left) /\ LeqZero(o.top) /\ LeqZero(o.right) /\ LeqZero(o.bottom)

RECURSIVE FirstFit(_, _, _, _, _, _, _)
\* The coordinates of the first orientation of list[i..] that fits, if any.
FirstFit(list, i, target, tooltip, padding, tooltipSeparation, pg) ==
    IF i > Len(list) THEN Undefined
    ELSE LET c == OrientationCoords(list[i], target, tooltip, padding, tooltipSeparation, pg)
         IN IF Fits(c, tooltip, pg) THEN c
            ELSE FirstFit(list, i + 1, target, tooltip, padding, tooltipSeparation, pg)

\* getTooltipPosition(args): undefined without a measured tooltip, else the
\* first orientation that fits, else the first orientation of the list.
getTooltipPosition(args, pg) ==
    IF args.tooltip = Null THEN Undefined
    ELSE LET prefs == args.orientationPreferences
             list == IF prefs.kind = "value" /\ prefs.v # <<>> THEN prefs.v
                     ELSE DefaultOrientations
             fit == FirstFit(list, 1, args.target, args.tooltip, args.padding,
                             args.tooltipSeparation, pg)
         IN IF fit # Undefined THEN fit
            ELSE OrientationCoords(list[1], args.target, args.tooltip, args.padding,
                                   args.tooltipSeparation, pg)

-----------------------------------------------------------------------------
(* The component's pure parts *)

DefaultMaskPadding == 5
DefaultTooltipSeparation == 10

walktourDefaultProps ==
    Options(Val(DefaultMaskPadding), Val(DefaultTooltipSeparation), Absent)

\* {...a, ...b}: a key of b, whatever its value, replaces the key of a.
Spread(a, b) == [k \in DOMAIN a |-> IF b[k] = Absent THEN a[k] ELSE b[k]]

\* steps[stepIndex], undefined outside the list
getStep(stepIndex, steps) ==
    IF stepIndex \in 0..(Len(steps) - 1) THEN steps[stepIndex + 1] ELSE Undefined

\* The spread in the wrong order: the component's options win over the step's.
MergedOptionsPropsLast(pr, currentStepContent) ==
    LET merged == Spread(Spread(walktourDefaultProps,
                                IF currentStepContent = Undefined
                                THEN Options(Absent, Absent, Absent)
                                ELSE currentStepContent.options),
                         pr.options)
    IN [k \in DOMAIN merged |-> Read(merged[k])]

\* {...walktourDefaultProps, ...props, ...currentStepContent}, as read by
\* the destructuring.
MergedOptions(pr, currentStepContent) ==
    LET merged == Spread(Spread(walktourDefaultProps, pr.options),
                         IF currentStepContent = Undefined
                         THEN Options(Absent, Absent, Absent)
                         ELSE currentStepContent.options)
    IN [k \in DOMAIN merged |-> Read(merged[k])]

\* getTargetData that answers a missing element with an empty rectangle at
\* the origin instead of throwing.
getTargetDataNoThrow(selector, pg) ==
    LET element == pg.elements[selector]
    IN [threw |-> FALSE,
        value |-> IF element # NoElement THEN element ELSE Rect(0, 0, 0, 0)]

\* getTargetData(selector): the element's rectangle, or an error thrown.
getTargetData(selector, pg) ==
    LET element == pg.elements[selector]
    IN IF element # NoElement THEN [threw |-> FALSE, value |-> element]
       ELSE [threw |-> TRUE, value |-> Undefined]

\* A mask that adds the padding to its size once, not on both sides.
TourMaskPaddedOnce(target, maskPadding, pg) ==
    IF target = Undefined THEN Null
    ELSE LET padding == IF maskPadding.kind = "value" THEN Px(maskPadding.v) ELSE 0
             coords == getElementCoords(target, TRUE, pg)
         IN [top |-> coords.y - padding,
             left |-> coords.x - padding,
             height |-> target.height + padding,
             width |-> target.width + padding]

\* TourMask(target, disableMaskInteraction, padding = 0)
TourMask(target, maskPadding, pg) ==
    IF target = Undefined THEN Null
    ELSE LET padding == IF maskPadding.kind = "value" THEN Px(maskPadding.v) ELSE 0
             coords == getElementCoords(target, TRUE, pg)
         IN [top |-> coords.y - padding,
             left |-> coords.x - padding,
             height |-> target.height + (padding * 2),
             width |-> target.width + (padding * 2)]

\* tooltipStyle with the visibility left at its default.
tooltipStyleAlwaysVisible(position) ==
    [top |-> IF position # Undefined THEN position.y ELSE Undefined,
     left |-> IF position # Undefined THEN position.x ELSE Undefined,
     visibility |-> "visible"]

\* The positioning part of the tooltip's style.
tooltipStyle(position) ==
    [top |-> IF position # Undefined THEN position.y ELSE Undefined,
     left |-> IF position # Undefined THEN position.x ELSE Undefined,
     visibility |-> IF position # Undefined THEN "visible" ELSE "hidden"]

-----------------------------------------------------------------------------
(* Rendering *)

\* A component that leaves the tooltip out of its output until a position
\* is stored.
RenderUnplacedTooltipOut(pr, visible, position, target, stepIndex, pg) ==
    LET currentStepContent == getStep(stepIndex, pr.steps)
        opts == MergedOptions(pr, currentStepContent)
    IN IF ~visible THEN [threw |-> FALSE, output |-> Null]
       ELSE IF currentStepContent = Undefined THEN [threw |-> TRUE, output |-> Null]
       ELSE [threw |-> FALSE,
             output |-> [mask |-> TourMask(target, opts.maskPadding, pg),
                         tooltip |-> IF position = Undefined THEN Null
                                     ELSE [step |-> stepIndex,
                                           title |-> currentStepContent.title,
                                           style |-> tooltipStyle(position)],
                         prevDisabled |-> (stepIndex = 0),
                         nextDisabled |-> (stepIndex + 1 = Len(pr.steps))]]

\* The component function deciding on the isVisible prop of each render in
\* place of the visibility state.
RenderOnProp(pr, visible, position, target, stepIndex, pg) ==
    LET currentStepContent == getStep(stepIndex, pr.steps)
        opts == MergedOptions(pr, currentStepContent)
    IN IF ~pr.isVisible THEN [threw |-> FALSE, output |-> Null]
       ELSE IF currentStepContent = Undefined THEN [threw |-> TRUE, output |-> Null]
       ELSE [threw |-> FALSE,
             output |-> [mask |-> TourMask(target, opts.maskPadding, pg),
                         tooltip |-> [step |-> stepIndex,
                                      title |-> currentStepContent.title,
                                      style |-> tooltipStyle(position)],
                         prevDisabled |-> (stepIndex = 0),
                         nextDisabled |-> (stepIndex + 1 = Len(pr.steps))]]

\* The component function with the next button live on the last step.
RenderNextNeverDisabled(pr, visible, position, target, stepIndex, pg) ==
    LET currentStepContent == getStep(stepIndex, pr.steps)
        opts == MergedOptions(pr, currentStepContent)
    IN IF ~visible THEN [threw |-> FALSE, output |-> Null]
       ELSE IF currentStepContent = Undefined THEN [threw |-> TRUE, output |-> Null]
       ELSE [threw |-> FALSE,
             output |-> [mask |-> TourMask(target, opts.maskPadding, pg),
                         tooltip |-> [step |-> stepIndex,
                                      title |-> currentStepContent.title,
                                      style |-> tooltipStyle(position)],
                         prevDisabled |-> (stepIndex = 0),
                         nextDisabled |-> (stepIndex = Len(pr.steps))]]

\* One call of the component function: what it returns, or that it threw.
\* Reading currentStepContent.title of a step that does not exist is a
\* TypeError; an invisible tour returns null before it gets there.
Render(pr, visible, position, target, stepIndex, pg) ==
    LET currentStepContent == getStep(stepIndex, pr.steps)
        opts == MergedOptions(pr, currentStepContent)
    IN IF ~visible THEN [threw |-> FALSE, output |-> Null]
       ELSE IF currentStepContent = Undefined THEN [threw |-> TRUE, output |-> Null]
       ELSE [threw |-> FALSE,
             output |-> [mask |-> TourMask(target, opts.maskPadding, pg),
                         tooltip |-> [step |-> stepIndex,
                                      title |-> currentStepContent.title,
                                      style |-> tooltipStyle(position)],
                         prevDisabled |-> (stepIndex = 0),
                         nextDisabled |-> (stepIndex + 1 = Len(pr.steps))]]

\* A closure that reads the isVisible prop in place of the visibility state.
EffectClosureOfProp(pr, visible, stepIndex, mount) ==
    [isVisibleState |-> pr.isVisible,
     currentStepIndex |-> stepIndex,
     options |-> MergedOptions(pr, getStep(stepIndex, pr.steps)),
     mount |-> mount]

\* What the placement effect of a render closes over.
EffectClosure(pr, visible, stepIndex, mount) ==
    [isVisibleState |-> visible,
     currentStepIndex |-> stepIndex,
     options |-> MergedOptions(pr, getStep(stepIndex, pr.steps)),
     mount |-> mount]

\* No dependency list: the effect runs after every render.
DepsAlways(prevStepIndex, stepIndex) == TRUE

\* An empty dependency list: the effect runs after the first render only.
DepsNever(prevStepIndex, stepIndex) == FALSE

\* The dependency list [currentStepIndex]: the effect runs again when it changed.
DepsChanged(prevStepIndex, stepIndex) == prevStepIndex # stepIndex

NoRun ==
    [ran |-> FALSE, visible |-> FALSE, step |-> 0, lookups |-> 0, selector |-> "",
     resolverCalls |-> 0, request |-> Null, measuredFrom |-> Null, threw |-> FALSE,
     mount |-> FALSE, result |-> Null]

\* Re-render with the new state and commit: the document shows the output,
\* and the placement effect is scheduled when its dependency changed.  An
\* error thrown while rendering unmounts the component.
Commit(pr, visible, position, target, stepIndex, prevStepIndex) ==
    LET r == Render(pr, visible, position, target, stepIndex, page)
    IN IF r.threw
       THEN /\ error' = "TypeError"
            /\ dom' = Null
            /\ pendingEffect' = Null
       ELSE /\ error' = error
            /\ dom' = r.output
            /\ pendingEffect' = IF DepsChanged(prevStepIndex, stepIndex)
                                THEN EffectClosure(pr, visible, stepIndex, FALSE)
                                ELSE Null

\* goToStep was not called, or was called with stepIndex.
NoCall == [called |-> FALSE, stepIndex |-> 0]
Call(stepIndex) == [called |-> TRUE, stepIndex |-> stepIndex]

\* useState initial values, the first render and its commit; both effects
\* of the mount are pending.
Init ==
    \E steps \in StepLists, opts \in PropsCatalog, isVisible \in BOOLEAN,
       initialStepIndex \in InitialStepIndexes, pg \in PageStates :
        LET index == IF initialStepIndex.kind = "value" /\ initialStepIndex.v # 0
                     THEN initialStepIndex.v ELSE 0
            pr == [steps |-> steps, isVisible |-> isVisible, options |-> opts]
            r == Render(pr, isVisible, Undefined, Undefined, index, pg)
        IN /\ props = pr
           /\ page = pg
           /\ isVisibleState = isVisible
           /\ tooltipPosition = Undefined
           /\ targetData = Undefined
           /\ currentStepIndex = index
           /\ dom = r.output
           /\ error = IF r.threw THEN "TypeError" ELSE "none"
           /\ pendingEffect = IF r.threw THEN Null
                              ELSE EffectClosure(pr, isVisible, index, TRUE)
           /\ last = NoRun
           /\ lastOp = "mount"
           /\ lastCall = NoCall

-----------------------------------------------------------------------------
(* Navigation *)

\* The overlay is on screen and idle: its buttons and key handler can be
\* reached, and every effect of the last render has run.
Interactive == error = "none" /\ dom # Null /\ pendingEffect = Null

\* goToStep accepting the index one past the last step
goToStepPastTheEnd(stepIndex, steps, current) ==
    IF stepIndex > Len(steps) \/ stepIndex < 0 THEN current ELSE stepIndex

\* goToStep(stepIndex): the index after the call
goToStep(stepIndex, steps, current) ==
    IF stepIndex >= Len(steps) \/ stepIndex < 0 THEN current ELSE stepIndex

\* A handler has set the state: React re-renders unless nothing changed.
AfterHandler(op) ==
    /\ lastOp' = op
    /\ UNCHANGED <<props, tooltipPosition, targetData, page, last>>
    /\ IF currentStepIndex' = currentStepIndex /\ isVisibleState' = isVisibleState
       THEN UNCHANGED <<dom, pendingEffect, error>>
       ELSE Commit(props, isVisibleState', tooltipPosition, targetData,
                   currentStepIndex', currentStepIndex)

next ==
    /\ Interactive
    /\ currentStepIndex' = goToStep(currentStepIndex + 1, props.steps, currentStepIndex)
    /\ UNCHANGED isVisibleState
    /\ lastCall' = Call(currentStepIndex + 1)
    /\ AfterHandler("next")

prev ==
    /\ Interactive
    /\ currentStepIndex' = goToStep(currentStepIndex - 1, props.steps, currentStepIndex)
    /\ UNCHANGED isVisibleState
    /\ lastCall' = Call(currentStepIndex - 1)
    /\ AfterHandler("prev")

\* tourLogic.goToStep, handed to the custom renderers
GoToStep ==
    /\ Interactive
    /\ \E stepIndex \in -1..MaxSteps :
           /\ currentStepIndex' = goToStep(stepIndex, props.steps, currentStepIndex)
           /\ lastCall' = Call(stepIndex)
    /\ UNCHANGED isVisibleState
    /\ AfterHandler("goToStep")

\* tourLogic.goToStep called by a custom renderer that kept it, after the
\* tour was closed.  The tour has been on screen (else no tourLogic was
\* made), so its first placement has stored a rectangle.
GoToStepAfterClose ==
    /\ error = "none"
    /\ pendingEffect = Null
    /\ ~isVisibleState
    /\ targetData # Undefined
    /\ \E stepIndex \in -1..MaxSteps :
           /\ currentStepIndex' = goToStep(stepIndex, props.steps, currentStepIndex)
           /\ lastCall' = Call(stepIndex)
    /\ UNCHANGED isVisibleState
    /\ AfterHandler("goToStep")

skip ==
    /\ Interactive
    /\ currentStepIndex' = goToStep(0, props.steps, currentStepIndex)
    /\ isVisibleState' = FALSE
    /\ lastCall' = Call(0)
    /\ AfterHandler("skip")

Keys == {"Escape", "ArrowRight", "ArrowLeft", "Enter"}

keyPressHandler ==
    /\ Interactive
    /\ \E key \in Keys :
         /\ CASE key = "Escape" ->
                   /\ currentStepIndex' = goToStep(0, props.steps, currentStepIndex)
                   /\ isVisibleState' = FALSE
                   /\ lastCall' = Call(0)
              [] key = "ArrowRight" ->
                   /\ currentStepIndex' =
                          goToStep(currentStepIndex + 1, props.steps, currentStepIndex)
                   /\ UNCHANGED isVisibleState
                   /\ lastCall' = Call(currentStepIndex + 1)
              [] key = "ArrowLeft" ->
                   /\ currentStepIndex' =
                          goToStep(currentStepIndex - 1, props.steps, currentStepIndex)
                   /\ UNCHANGED isVisibleState
                   /\ lastCall' = Call(currentStepIndex - 1)
              [] OTHER -> /\ UNCHANGED <<currentStepIndex, isVisibleState>>
                          /\ lastCall' = NoCall
         /\ AfterHandler(key)

\* The parent renders the component again, with isVisible and the option
\* props as it likes (the steps list is the one it was mounted with); the
\* state is kept, so the dependency of the effect is unchanged.
ParentRender ==
    /\ error = "none"
    /\ pendingEffect = Null
    /\ \E isVisible \in BOOLEAN, options \in PropsCatalog :
           props' = [props EXCEPT !.isVisible = isVisible, !.options = options]
    /\ UNCHANGED <<isVisibleState, tooltipPosition, targetData, currentStepIndex,
                   page, last>>
    /\ lastOp' = "parent"
    /\ lastCall' = NoCall
    /\ Commit(props', isVisibleState, tooltipPosition, targetData,
              currentStepIndex, currentStepIndex)

\* The page scrolls, is resized or reflows, or an element comes or goes.
Reflow ==
    /\ error = "none"
    /\ \E pg \in PageStates : pg # page /\ page' = pg
    /\ lastOp' = "reflow"
    /\ lastCall' = NoCall
    /\ UNCHANGED <<props, isVisibleState, tooltipPosition, targetData,
                   currentStepIndex, dom, pendingEffect, error, last>>

-----------------------------------------------------------------------------
(* The effects *)

\* document.getElementById('walktour-tooltip') and its getBoundingClientRect():
\* the size of the tooltip as the document shows it (the resolver reads no
\* other field), null while no tooltip is in the document.
MeasureTooltip(d) ==
    IF d = Null \/ d.tooltip = Null THEN Null ELSE TooltipSize(d.tooltip.title)

\* A call that keeps the rectangle already stored instead of the one just
\* looked up.
PlacementRequestCached(target, tooltip, opts) ==
    [target |-> IF targetData # Undefined THEN targetData ELSE target,
     tooltip |-> tooltip,
     padding |-> opts.maskPadding,
     tooltipSeparation |-> opts.tooltipSeparation,
     orientationPreferences |-> opts.orientationPreferences]

\* A call that leaves orientationPreferences out.
PlacementRequestNoPreferences(target, tooltip, opts) ==
    [target |-> target,
     tooltip |-> tooltip,
     padding |-> opts.maskPadding,
     tooltipSeparation |-> opts.tooltipSeparation,
     orientationPreferences |-> Undef]

\* The argument of the getTooltipPosition call.
PlacementRequest(target, tooltip, opts) ==
    [target |-> target,
     tooltip |-> tooltip,
     padding |-> opts.maskPadding,
     tooltipSeparation |-> opts.tooltipSeparation,
     orientationPreferences |-> opts.orientationPreferences]

\* The effects of the last render run, in the order they were declared: on
\* mount goToStep(currentStepIndex), then the placement effect.  An error
\* thrown by the effect unmounts the component.
RunEffects ==
    /\ error = "none"
    /\ pendingEffect # Null
    /\ lastOp' = "effect"
    /\ lastCall' = IF pendingEffect.mount THEN Call(pendingEffect.currentStepIndex)
                   ELSE NoCall
    /\ UNCHANGED <<props, page, isVisibleState>>
    /\ LET c == pendingEffect
           step == getStep(c.currentStepIndex, props.steps)
           tooltipData == MeasureTooltip(dom)
           measuredFrom == IF tooltipData = Null THEN Null
                           ELSE [step |-> dom.tooltip.step]
       IN /\ currentStepIndex' =
                 IF c.mount
                 THEN goToStep(c.currentStepIndex, props.steps, currentStepIndex)
                 ELSE currentStepIndex
          /\ IF c.isVisibleState = FALSE
             THEN \* the early return
                  /\ UNCHANGED <<tooltipPosition, targetData>>
                  /\ last' = [NoRun EXCEPT !.ran = TRUE, !.step = c.currentStepIndex,
                                           !.mount = c.mount]
                  /\ IF currentStepIndex' = currentStepIndex
                     THEN UNCHANGED <<dom, error>> /\ pendingEffect' = Null
                     ELSE Commit(props, isVisibleState, tooltipPosition, targetData,
                                 currentStepIndex', currentStepIndex)
             ELSE IF step = Undefined
             THEN \* getStep(...).querySelector of no step
                  /\ UNCHANGED <<tooltipPosition, targetData>>
                  /\ last' = [NoRun EXCEPT !.ran = TRUE, !.visible = TRUE,
                                           !.step = c.currentStepIndex, !.threw = TRUE,
                                           !.mount = c.mount]
                  /\ error' = "TypeError"
                  /\ dom' = Null
                  /\ pendingEffect' = Null
             ELSE LET lookup == getTargetData(step.querySelector, page)
                      request == PlacementRequest(lookup.value, tooltipData, c.options)
                  IN IF lookup.threw
                     THEN /\ UNCHANGED <<tooltipPosition, targetData>>
                          /\ last' = [NoRun EXCEPT !.ran = TRUE, !.visible = TRUE,
                                         !.step = c.currentStepIndex, !.lookups = 1,
                                         !.selector = step.querySelector,
                                         !.threw = TRUE, !.mount = c.mount]
                          /\ error' = "TargetNotFound"
                          /\ dom' = Null
                          /\ pendingEffect' = Null
                     ELSE /\ targetData' = lookup.value
                          /\ tooltipPosition' = getTooltipPosition(request, page)
                          /\ last' = [ran |-> TRUE, visible |-> TRUE,
                                      step |-> c.currentStepIndex, lookups |-> 1,
                                      selector |-> step.querySelector,
                                      resolverCalls |-> 1, request |-> request,
                                      measuredFrom |-> measuredFrom, threw |-> FALSE,
                                      mount |-> c.mount,
                                      result |-> tooltipPosition']
                          /\ Commit(props, isVisibleState, tooltipPosition', targetData',
                                    currentStepIndex', currentStepIndex)

Next ==
    \/ next
    \/ prev
    \/ GoToStep
    \/ GoToStepAfterClose
    \/ skip
    \/ keyPressHandler
    \/ ParentRender
    \/ Reflow
    \/ RunEffects

Spec == Init /\ [][Next]_vars

-----------------------------------------------------------------------------
(* Properties *)

\* A step of the placement effect: only RunEffects acts while an effect is
\* pending and the page stays as it is.
EffectStep == pendingEffect # Null /\ page' = page

\* The step whose effect is pending.
PendingStep == getStep(pendingEffect.currentStepIndex, props.steps)

\* C1: when the selector of the step being activated matches no element,
\* the lookup raises; the resolver is not called for that activation and
\* neither targetData nor tooltipPosition is updated.
C1_MissingTargetStopsPlacement ==
    [][(/\ EffectStep
        /\ pendingEffect.isVisibleState
        /\ PendingStep # Undefined
        /\ page.elements[PendingStep.querySelector] = NoElement)
       => (/\ error' = "TargetNotFound"
           /\ last'.lookups = 1
           /\ last'.threw
           /\ last'.resolverCalls = 0
           /\ targetData' = targetData
           /\ tooltipPosition' = tooltipPosition)]_vars

\* A navigation to a step without target has raised, and what the earlier
\* step had stored is still stored.
C1_Witness ==
    /\ error = "TargetNotFound"
    /\ ~last.mount
    /\ last.resolverCalls = 0
    /\ targetData # Undefined
    /\ tooltipPosition # Undefined

NavigationOps == {"next", "prev", "goToStep", "ArrowRight", "ArrowLeft"}

\* C2: after a navigation to a step whose selector matches no element, no
\* render of the overlay shows that step.
C2_MissingStepNeverRendered ==
    ~(/\ lastOp \in NavigationOps
      /\ pendingEffect # Null
      /\ dom # Null
      /\ dom.tooltip.step = pendingEffect.currentStepIndex
      /\ dom.tooltip.title = PendingStep.title
      /\ page.elements[PendingStep.querySelector] = NoElement)

\* C3: whenever the resolver is called for a step, the tooltip rectangle it
\* is given is there, and was measured from the tooltip as the document
\* shows it for that same step.
C3_MeasuredBeforePlaced ==
    last.resolverCalls = 1
    => (/\ last.request.tooltip # Null
        /\ last.measuredFrom = [step |-> last.step]
        /\ last.request.tooltip = TooltipSize(getStep(last.step, props.steps).title))

\* The resolver was called after a navigation to a step whose tooltip has
\* another size than the tooltip of the step before.
C3_Witness ==
    /\ last.resolverCalls = 1
    /\ ~last.mount
    /\ last.step > 0
    /\ last.request.tooltip # TooltipSize(getStep(last.step - 1, props.steps).title)

\* C4: in every render of a visible tour the tooltip is visible exactly when
\* a tooltip position is stored; until the first result is stored it is
\* hidden, and an undefined result is rendered as hidden.
C4_VisibleIffPositioned ==
    /\ dom # Null
       => /\ dom.tooltip.style.visibility \in {"visible", "hidden"}
          /\ (dom.tooltip.style.visibility = "visible") <=> (tooltipPosition # Undefined)
          /\ (last.resolverCalls = 0 /\ error = "none")
             => dom.tooltip.style.visibility = "hidden"
    /\ tooltipStyle(getTooltipPosition(
           PlacementRequest(Rect(0, 0, 0, 0), Null, walktourDefaultProps), page)).visibility
       = "hidden"

\* The overlay is mounted and the first placement has not run: the tooltip
\* is in the document, hidden.
C4_Witness ==
    /\ dom # Null
    /\ pendingEffect # Null
    /\ pendingEffect.mount
    /\ tooltipPosition = Undefined
    /\ dom.tooltip.style.visibility = "hidden"

\* C5 as stated: every change of the step index of a visible tour is
\* followed by one target lookup and one resolver call.
C5_LookupThenResolverOnEveryChange ==
    (last.ran /\ last.visible /\ ~last.mount)
    => (last.lookups = 1 /\ last.resolverCalls = 1)

\* C5: a change of the step index that leaves the tour visible schedules the
\* placement effect for the new index; the effect runs once, looks the
\* target up afresh by that step's selector, and calls the resolver once
\* with the rectangle just found, or not at all when the lookup raises.
C5_FreshLookupPerStepChange ==
    [][/\ (currentStepIndex' # currentStepIndex /\ isVisibleState' /\ error' = "none")
          => (/\ pendingEffect' # Null
              /\ pendingEffect'.currentStepIndex = currentStepIndex'
              /\ pendingEffect'.isVisibleState)
       /\ (EffectStep /\ pendingEffect.isVisibleState /\ PendingStep # Undefined)
          => (/\ pendingEffect' = Null
              /\ last'.lookups = 1
              /\ last'.selector = PendingStep.querySelector
              /\ IF page.elements[PendingStep.querySelector] # NoElement
                 THEN /\ last'.resolverCalls = 1
                      /\ last'.request.target = page.elements[PendingStep.querySelector]
                      /\ targetData' = page.elements[PendingStep.querySelector]
                 ELSE /\ last'.resolverCalls = 0
                      /\ last'.threw)]_vars

\* The effect has run for a step reached by navigation whose target is
\* another element than the one stored before.
C5_Witness ==
    /\ lastOp = "effect"
    /\ ~last.mount
    /\ last.resolverCalls = 1
    /\ last.step = 1
    /\ getStep(0, props.steps).querySelector # getStep(1, props.steps).querySelector
    /\ targetData = page.elements[getStep(1, props.steps).querySelector]

\* C6 as stated: once the controller is idle, the stored target rectangle
\* is the rectangle the current step's target has now, whatever scroll,
\* resize or reflow has happened since the step was activated.
C6_RecomputedOnGeometryChange ==
    (/\ Interactive
     /\ targetData # Undefined
     /\ page.elements[getStep(currentStepIndex, props.steps).querySelector] # NoElement)
    => targetData = page.elements[getStep(currentStepIndex, props.steps).querySelector]

\* C6: a change of the page triggers no lookup and leaves the stored
\* rectangle and position as they are; only the placement effect stores
\* them, and once mounted it is scheduled by a change of the step index only.
C6_PlacementOnlyOnStepActivation ==
    [][/\ (page' # page)
          => (/\ targetData' = targetData
              /\ tooltipPosition' = tooltipPosition
              /\ pendingEffect' = pendingEffect
              /\ last' = last)
       /\ (targetData' # targetData \/ tooltipPosition' # tooltipPosition \/ last' # last)
          => EffectStep
       /\ (pendingEffect' # Null /\ pendingEffect' # pendingEffect)
          => currentStepIndex' # currentStepIndex]_vars

\* The page has changed under an idle tour: the stored rectangle is not the
\* target's rectangle any more.
C6_Witness ==
    /\ Interactive
    /\ lastOp = "reflow"
    /\ targetData # Undefined
    /\ page.elements[getStep(currentStepIndex, props.steps).querySelector] # NoElement
    /\ targetData # page.elements[getStep(currentStepIndex, props.steps).querySelector]
    /\ tooltipPosition = last.result

\* C7 as stated: a visibly shown tooltip is never at a position computed
\* for another step than the one whose content it shows.
C7_NeverAtAnotherStepsPosition ==
    (dom # Null /\ dom.tooltip.style.visibility = "visible")
    => (last.resolverCalls = 1 /\ last.step = dom.tooltip.step)

\* C7: once no placement effect is pending, a visibly shown tooltip is at
\* the position computed for the step whose content it shows.
C7_PlacedOnceEffectHasRun ==
    (dom # Null /\ dom.tooltip.style.visibility = "visible" /\ pendingEffect = Null)
    => (/\ last.resolverCalls = 1
        /\ last.step = dom.tooltip.step
        /\ tooltipPosition = last.result
        /\ dom.tooltip.style.top = last.result.y
        /\ dom.tooltip.style.left = last.result.x)

\* After a navigation the effect has run and the tooltip sits at the
\* position of the step it shows.
C7_Witness ==
    /\ Interactive
    /\ lastOp = "effect"
    /\ ~last.mount
    /\ dom.tooltip.step = last.step
    /\ dom.tooltip.style.visibility = "visible"
    /\ dom.tooltip.style.top = last.result.y

\* The option a step runs with: its own if it has the key, else the
\* component's if it has the key, else the default.
Effective(key, pr, step) ==
    Read(IF step.options[key] # Absent THEN step.options[key]
         ELSE IF pr.options[key] # Absent THEN pr.options[key]
         ELSE walktourDefaultProps[key])

\* The orientations in the order they are tried for a step.
PreferenceList(pr, step) ==
    LET prefs == Effective("orientationPreferences", pr, step)
    IN IF prefs.kind = "value" /\ prefs.v # <<>> THEN prefs.v ELSE DefaultOrientations

\* The placement of a step's tooltip at the i-th orientation of its list.
Candidate(i, pr, step, pg) ==
    OrientationCoords(PreferenceList(pr, step)[i],
                      pg.elements[step.querySelector], TooltipSize(step.title),
                      Effective("maskPadding", pr, step),
                      Effective("tooltipSeparation", pr, step), pg)

CandidateFits(i, pr, step, pg) ==
    Fits(Candidate(i, pr, step, pg), TooltipSize(step.title), pg)

\* The placement effect runs for a visible tour and finds its target.
PlacingStep ==
    /\ EffectStep
    /\ pendingEffect.isVisibleState
    /\ PendingStep # Undefined
    /\ page.elements[PendingStep.querySelector] # NoElement

MaskPaddingOf(pr, stepIndex) ==
    LET o == MergedOptions(pr, getStep(stepIndex, pr.steps)).maskPadding
    IN IF o.kind = "value" THEN o.v ELSE 0

\* C10: every render of the overlay draws the mask as the stored target
\* rectangle grown by the padding on every side, its corner at the target's
\* rounded page-absolute corner less the padding; it draws no mask exactly
\* when no target rectangle is stored.
C10_MaskIsPaddedTarget ==
    /\ [](dom # Null => (dom.mask = Null <=> targetData = Undefined))
    /\ [][(page' = page /\ dom' # Null /\ dom' # dom /\ targetData' # Undefined)
          => LET mask == dom'.mask
                 p == Px(MaskPaddingOf(props', dom'.tooltip.step))
             IN /\ mask # Null
                /\ mask.left + p = Px(Round(targetData'.left + page.scrollX))
                /\ mask.top + p = Px(Round(targetData'.top + page.scrollY))
                /\ mask.left + mask.width = mask.left + p + targetData'.width + p
                /\ mask.top + mask.height = mask.top + p + targetData'.height + p]_vars

\* A mask is drawn with a padding around a target at a fractional position.
C10_Witness ==
    /\ lastOp = "effect"
    /\ dom # Null
    /\ dom.mask # Null
    /\ MaskPaddingOf(props, dom.tooltip.step) > 0
    /\ (targetData.top + page.scrollY) % 2 = 1
    /\ dom.mask.top = Px(Round(targetData.top + page.scrollY)) - Px(MaskPaddingOf(props, dom.tooltip.step))

----------------------------------------------------------------------------
\* The number an option falls back to: the step's own number, else the
\* component props' number, else the default.
SuppliedNumber(key, pr, step) ==
    IF step.options[key].kind = "value" THEN step.options[key]
    ELSE IF pr.options[key].kind = "value" THEN pr.options[key]
    ELSE walktourDefaultProps[key]

\* C11: the padding and the tooltipSeparation handed to the resolver are
\* numbers whatever options are given: the step's own value, else the
\* component props' value, else the defaults 5 and 10.
C11_PaddingAndSeparationAreNumbers ==
    (lastOp = "effect" /\ last.resolverCalls = 1) =>
        LET step == getStep(last.step, props.steps)
        IN /\ last.request.padding.kind = "value"
           /\ last.request.tooltipSeparation.kind = "value"
           /\ last.request.padding = SuppliedNumber("maskPadding", props, step)
           /\ last.request.tooltipSeparation =
                  SuppliedNumber("tooltipSeparation", props, step)

\* C12: in every reachable state, the initial one included, the active step
\* index designates a step of the list: 0 <= currentStepIndex < steps.length.
\* Stated for the lists that have a step, where such an index exists.
C12_IndexInRange ==
    Len(props.steps) > 0 => currentStepIndex \in 0..(Len(props.steps) - 1)

\* A goToStep call with an index outside the list.
OutOfRangeCall(call, steps) ==
    call.called /\ (call.stepIndex < 0 \/ call.stepIndex >= Len(steps))

\* The operations that do nothing but call goToStep.
GoToStepOps == {"next", "prev", "goToStep", "ArrowRight", "ArrowLeft"}

\* What a navigation operation could change or trigger.
TourState ==
    <<currentStepIndex, isVisibleState, targetData, tooltipPosition,
      pendingEffect, last, dom, error>>

\* C13: goToStep with an index below 0 or at or past the end of the list
\* changes nothing: index, visibility, stored rectangle and stored position
\* stay, no effect is scheduled and no lookup or resolver call is made.  So
\* do next on the last step and prev on the first.
C13_OutOfRangeGoToStepIsNoOp ==
    [][ /\ OutOfRangeCall(lastCall', props.steps)
           => /\ currentStepIndex' = currentStepIndex
              /\ lastOp' \in GoToStepOps => UNCHANGED TourState
        /\ (lastOp' \in {"next", "ArrowRight"}
              /\ currentStepIndex + 1 = Len(props.steps))
           => UNCHANGED TourState
        /\ (lastOp' \in {"prev", "ArrowLeft"} /\ currentStepIndex = 0)
           => UNCHANGED TourState ]_vars

C13_Witness ==
    /\ Interactive
    /\ lastOp = "next"
    /\ lastCall = Call(Len(props.steps))
    /\ Len(props.steps) = 2
    /\ currentStepIndex = 1
    /\ tooltipPosition # Undefined

\* C14: skip (the skip button, tourLogic.close, the Escape key) from any
\* step leaves the tour invisible at index 0 with the stored rectangle and
\* position as they were, and the effect its index change schedules makes
\* no lookup and no resolver call.
C14_SkipClosesAtZeroWithoutPlacement ==
    [][ /\ lastOp' \in {"skip", "Escape"}
           => /\ isVisibleState' = FALSE
              /\ dom' = Null
              /\ currentStepIndex' = 0
              /\ UNCHANGED <<targetData, tooltipPosition, last>>
              /\ pendingEffect' # Null <=> currentStepIndex # 0
              /\ pendingEffect' # Null => ~pendingEffect'.isVisibleState
        /\ (lastOp' = "effect" /\ ~pendingEffect.isVisibleState)
           => /\ last'.lookups = 0
              /\ last'.resolverCalls = 0
              /\ UNCHANGED <<targetData, tooltipPosition>>
              /\ isVisibleState' = FALSE
              /\ dom' = Null ]_vars

C14_Witness ==
    /\ lastOp \in {"skip", "Escape"}
    /\ ~isVisibleState
    /\ currentStepIndex = 0
    /\ pendingEffect # Null
    /\ targetData # Undefined
    /\ tooltipPosition # Undefined

\* C15: closing is permanent.  Once the visibility state is false, after a
\* skip or from a mount with isVisible false, it stays false and nothing
\* is rendered, whatever navigation call, key event or later value of the
\* isVisible prop follows.
C15_ClosedStaysClosed ==
    /\ [](~isVisibleState => dom = Null)
    /\ [][~isVisibleState => (~isVisibleState' /\ dom' = Null)]_vars

C15_Witness ==
    /\ ~isVisibleState
    /\ dom = Null
    /\ error = "none"
    /\ targetData # Undefined
    /\ props.isVisible
    /\ lastOp = "parent"

\* C16: in the default footer of a visible tour the prev button is disabled
\* exactly when prev() would leave the index as it is, and the next button
\* exactly when next() would.
C16_DisabledIffNoOp ==
    dom # Null =>
        /\ dom.prevDisabled <=>
               goToStep(currentStepIndex - 1, props.steps, currentStepIndex)
                   = currentStepIndex
        /\ dom.nextDisabled <=>
               goToStep(currentStepIndex + 1, props.steps, currentStepIndex)
                   = currentStepIndex

C16_Witness ==
    /\ Interactive
    /\ Len(props.steps) = 2
    /\ currentStepIndex = 1
    /\ dom.nextDisabled
    /\ ~dom.prevDisabled

\* Every step's selector matches an element of the page.
AllTargetsExist ==
    \A i \in 1..Len(props.steps) :
        ~getTargetData(props.steps[i].querySelector, page).threw

\* The tour is visible and quiescent, and every step's target exists.
Quiescent == Interactive /\ isVisibleState /\ AllTargetsExist

\* The stored rectangle and the stored position are the input and the
\* result of one resolver call, made for the current step index.
StoredFromOneLookup ==
    /\ last.lookups = 1
    /\ last.resolverCalls = 1
    /\ last.step = currentStepIndex
    /\ last.selector = getStep(currentStepIndex, props.steps).querySelector
    /\ targetData = last.request.target
    /\ tooltipPosition = last.result

\* The options of a resolver call are those merged for the step.
RequestOptionsAre(request, opts) ==
    /\ request.padding = opts.maskPadding
    /\ request.tooltipSeparation = opts.tooltipSeparation
    /\ request.orientationPreferences = opts.orientationPreferences

\* C17: in a quiescent visible tour whose targets all exist the
\* stored rectangle and position come from one lookup, made for the current
\* step index with the current step's merged options.
C17_StoredPlacementIsCurrent ==
    Quiescent =>
        /\ StoredFromOneLookup
        /\ RequestOptionsAre(last.request,
               MergedOptions(props, getStep(currentStepIndex, props.steps)))

====
